---- MODULE Spec2Model ----
(***************************************************************************)
(* Model of src/main.py: the FastAPI weather chatbot backend.              *)
(*                                                                         *)
(* State: the DynamoDB chat-history table (authoritative copy and the copy *)
(* an eventually consistent Query may be served from), the wall clock that *)
(* save_message stamps items with, and, per in-flight POST /chat request,  *)
(* the position of chat_with_gemini and its local variables.               *)
(* Steps of a request are cut at its blocking I/O calls (store, model,     *)
(* weather provider); two requests interleave at those points.             *)
(***************************************************************************)
EXTENDS Integers, Sequences, FiniteSets, TLC

\* ------------------------------------------------------------------ bounds

\* Messages already in the table when the process starts (u1's backlog).
BacklogLen == 5
\* Clock ticks the model lets pass after start.
Horizon == 2
\* Clock ticks per second: the sub-second resolution of the modelled stamp.
TicksPerSecond == 2

StartTime == BacklogLen
MaxTime == StartTime + Horizon

\* ------------------------------------------------------- program constants

ContextLimit == 5
FullHistoryLimit == 100

Turns == {"A", "B"}
Users == {"u1", "u2"}
\* Requests served, POST /chat and GET /history together.
MaxRequests == Cardinality(Turns)
\* The userId and message fields of the POST /chat bodies sent: each client
\* sends its own text, or leaves a field empty.
UserIds == {"u1", ""}
Texts(t) == {"", IF t = "A" THEN "hi" ELSE "yo"}
NoText == "<no text>"

\* ------------------------------------------------------------- timestamps

\* datetime.isoformat(): zero-padded seconds, the fraction only when it is
\* not zero, then the UTC offset.  Characters are their ASCII codes:
\* '0' = 48, '.' = 46, '+' = 43.
IsoFormatSeconds(t) ==
    LET sec == t \div TicksPerSecond
    IN  <<48 + (sec \div 10), 48 + (sec % 10), 43>>

IsoFormat(t) ==
    LET sec == t \div TicksPerSecond
        us  == t % TicksPerSecond
    IN  <<48 + (sec \div 10), 48 + (sec % 10)>>
        \o (IF us = 0 THEN <<>> ELSE <<46, 48 + us>>)
        \o <<43>>

\* Line 59: datetime.now(timezone.utc).isoformat() at clock reading t.
utcnow_isoformat_seconds(t) == IsoFormatSeconds(t)

utcnow_isoformat(t) == IsoFormat(t)

\* Python's (and DynamoDB's) string order: lexicographic by code point.
RECURSIVE StrLess(_, _)
StrLess(a, b) ==
    IF a = <<>> THEN b # <<>>
    ELSE IF b = <<>> THEN FALSE
    ELSE IF a[1] # b[1] THEN a[1] < b[1]
    ELSE StrLess(Tail(a), Tail(b))

\* ------------------------------------------------------------------ store

Item(user_id, timestamp, sender, message) ==
    [UserID |-> user_id, Timestamp |-> timestamp,
     Sender |-> sender, Message |-> message]

\* Table.put_item: the item replaces the one with the same key
\* (UserID, Timestamp), if any.
put_item(table, item) ==
    {x \in table : ~(x.UserID = item.UserID /\ x.Timestamp = item.Timestamp)}
        \cup {item}

\* The items of a partition, newest sort key first / oldest first.
RECURSIVE Descending(_)
Descending(S) ==
    IF S = {} THEN <<>>
    ELSE LET m == CHOOSE x \in S :
                    \A y \in S \ {x} : StrLess(y.Timestamp, x.Timestamp)
         IN  <<m>> \o Descending(S \ {m})

RECURSIVE Ascending(_)
Ascending(S) ==
    IF S = {} THEN <<>>
    ELSE LET m == CHOOSE x \in S :
                    \A y \in S \ {x} : StrLess(x.Timestamp, y.Timestamp)
         IN  <<m>> \o Ascending(S \ {m})

Take(seq, n) == SubSeq(seq, 1, IF n < Len(seq) THEN n ELSE Len(seq))

\* Table.query(Key('UserID').eq(user_id), ScanIndexForward=False, Limit=limit)
query(table, user_id, limit) ==
    Take(Descending({x \in table : x.UserID = user_id}), limit)

queryForward(table, user_id, limit) ==
    Take(Ascending({x \in table : x.UserID = user_id}), limit)

\* sorted(items, key=lambda x: x['Timestamp']): a stable insertion sort.
RECURSIVE Insert(_, _)
Insert(x, seq) ==
    IF seq = <<>> THEN <<x>>
    ELSE IF StrLess(x.Timestamp, seq[1].Timestamp) THEN <<x>> \o seq
    ELSE <<seq[1]>> \o Insert(x, Tail(seq))

RECURSIVE InsertAll(_, _)
InsertAll(seq, acc) ==
    IF seq = <<>> THEN acc
    ELSE InsertAll(Tail(seq), Insert(seq[1], acc))

sorted(seq) == InsertAll(seq, <<>>)

get_recent_history_unsorted(table, user_id, limit) == query(table, user_id, limit)

get_recent_history_oldest(table, user_id, limit) ==
    sorted(queryForward(table, user_id, limit))

\* get_recent_history with the table defined: the query, re-sorted.
get_recent_history(table, user_id, limit) ==
    sorted(query(table, user_id, limit))


\* ------------------------------------------------------- request handling

\* Line 80: the request is rejected when message or userId is empty.
RequestRejectedMessageOnly(r) == r.message = ""

RequestRejected(r) == r.message = "" \/ r.userId = ""

\* The exception that escapes save_message / get_recent_history, "none" when
\* it returns.  chat_history_table is bound (line 29) only when the table
\* name is set (line 27); reading the unbound global at line 58 / 66 raises
\* NameError.  A bound Table object is truthy, so the early return is never
\* taken.  A failure of put_item / query is not caught.
store_call_swallows(tableDefined, callOk) == "none"

store_call_raises(tableDefined, callOk) ==
    IF ~tableDefined THEN "NameError"
    ELSE IF callOk THEN "none"
    ELSE "StoreError"

\* ---------------------------------------------------------------- weather

Units == {"celsius", "fahrenheit"}
Locations == {"Paris"}

\* What the provider does with the GET of line 48.
ProviderOutcomes ==
    {"ok", "network_error", "http_error", "bad_json",
     "missing_name", "missing_temp", "empty_weather"}

\* Line 46: the "units" query parameter.
UnitsParam(unit) == IF unit = "celsius" THEN "metric" ELSE "imperial"

NoPayload == [kind |-> "none", location |-> "", unit |-> ""]

\* Lines 47-53: the value returned, or the exception that escapes.  Only
\* requests.exceptions.RequestException is caught: a connection error, the
\* HTTPError of raise_for_status, and the JSON decode error where the
\* installed requests raises its own (jsonErrIsRequestException); a plain
\* ValueError from response.json(), the KeyError of a missing field and the
\* IndexError of an empty "weather" list escape.
get_weather(location, unit, outcome, jsonErrIsRequestException) ==
    CASE outcome = "ok" ->
           [exc |-> "none",
            payload |-> [kind |-> "weather", location |-> location, unit |-> unit]]
      [] outcome \in {"network_error", "http_error"} ->
           [exc |-> "none",
            payload |-> [kind |-> "error", location |-> "", unit |-> ""]]
      [] outcome = "bad_json" ->
           IF jsonErrIsRequestException
           THEN [exc |-> "none",
                 payload |-> [kind |-> "error", location |-> "", unit |-> ""]]
           ELSE [exc |-> "ValueError", payload |-> NoPayload]
      [] outcome \in {"missing_name", "missing_temp"} ->
           [exc |-> "KeyError", payload |-> NoPayload]
      [] outcome = "empty_weather" ->
           [exc |-> "IndexError", payload |-> NoPayload]

\* Line 94: get_weather is called with the location alone, so unit takes the
\* default of line 43 whatever the model asked for.
ToolCallUnit(args) == "celsius"

\* ------------------------------------------------------------------ state

VARIABLES
    configured,     \* CHAT_HISTORY_TABLE_NAME is set (lines 17, 27)
    store,          \* the table's items
    replica,        \* the copy an eventually consistent Query may read
    now,            \* datetime.now(timezone.utc), in ticks
    pc,             \* per request: the state of chat_with_gemini
    req,            \* per request: the ChatRequest
    puts,           \* per request: the items it has put, in order
    nQuery,         \* per request: history queries issued
    stale,          \* per request: its history query read a lagging copy
    history,        \* per request: get_recent_history's result
    first,          \* per request: the first model response
    nModel,         \* per request: model calls issued
    wxCalls,        \* per request: the weather GETs issued
    toolResult,     \* per request: what get_weather returned
    secondInput,    \* per request: the tool result sent in the second call
    response_text,  \* per request: response_text
    result,         \* per request: the HTTP outcome
    nReq,           \* requests received so far
    getResp         \* the last GET /history outcome

vars == <<configured, store, replica, now, pc, req, puts, nQuery, stale,
          history, first, nModel, wxCalls, toolResult, secondInput,
          response_text, result, nReq, getResp>>

NoRequest == [userId |-> "", message |-> ""]
NoResponse == [kind |-> "none", location |-> "", unit |-> ""]
NoResult == [status |-> 0, at |-> "", exc |-> "", response |-> NoText]

\* u1's earlier conversation, and one message of u2.
Backlog ==
    {Item("u1", IsoFormat(i), IF i % 2 = 0 THEN "USER" ELSE "BOT", "old")
        : i \in 0..(BacklogLen - 1)}
    \cup {Item("u2", IsoFormat(1), "USER", "old")}

Init ==
    /\ configured \in BOOLEAN
    /\ store \in (IF configured THEN {{}, Backlog} ELSE {{}})
    /\ replica = store
    /\ now = StartTime
    /\ pc = [t \in Turns |-> "Idle"]
    /\ req = [t \in Turns |-> NoRequest]
    /\ puts = [t \in Turns |-> <<>>]
    /\ nQuery = [t \in Turns |-> 0]
    /\ stale = [t \in Turns |-> FALSE]
    /\ history = [t \in Turns |-> <<>>]
    /\ first = [t \in Turns |-> NoResponse]
    /\ nModel = [t \in Turns |-> 0]
    /\ wxCalls = [t \in Turns |-> <<>>]
    /\ toolResult = [t \in Turns |-> NoPayload]
    /\ secondInput = [t \in Turns |-> NoPayload]
    /\ response_text = [t \in Turns |-> NoText]
    /\ result = [t \in Turns |-> NoResult]
    /\ nReq = 0
    /\ getResp = [status |-> 0, user |-> "", history |-> <<>>]

storeVars == <<configured, store, replica, now>>
getVars == <<nReq, getResp>>

\* An uncaught exception: the request ends as a 500.
Raise(t, exc) ==
    /\ result' = [result EXCEPT ![t] =
                    [status |-> 500, at |-> pc[t], exc |-> exc, response |-> NoText]]
    /\ pc' = [pc EXCEPT ![t] = "Error"]

\* Lines 79-81: POST /chat arrives and is validated.
ReceiveChat(t) ==
    /\ pc[t] = "Idle"
    /\ nReq < MaxRequests
    /\ nReq' = nReq + 1
    /\ UNCHANGED getResp
    /\ \E u \in UserIds, m \in Texts(t) :
          LET r == [userId |-> u, message |-> m]
          IN  /\ req' = [req EXCEPT ![t] = r]
              /\ IF RequestRejected(r)
                 THEN /\ pc' = [pc EXCEPT ![t] = "Rejected"]
                      /\ result' = [result EXCEPT ![t] =
                            [status |-> 400, at |-> "Validating",
                             exc |-> "HTTPException", response |-> NoText]]
                 ELSE /\ pc' = [pc EXCEPT ![t] = "PersistingUser"]
                      /\ UNCHANGED result
    /\ UNCHANGED <<storeVars, puts, nQuery, stale, history, first,
                   nModel, wxCalls, toolResult, secondInput, response_text>>

\* save_message (lines 56-62) as called at line 83 / 104.
SaveMessage(t, sender, message, next) ==
    \E putOk \in BOOLEAN :
        LET item == Item(req[t].userId, utcnow_isoformat(now), sender, message)
            exc  == store_call_raises(configured, putOk)
        IN  /\ IF configured /\ putOk
               THEN /\ store' = put_item(store, item)
                    /\ puts' = [puts EXCEPT ![t] = Append(@, item)]
               ELSE UNCHANGED <<store, puts>>
            /\ IF exc = "none" THEN next ELSE Raise(t, exc)

\* Line 83.
PersistUser(t) ==
    /\ pc[t] = "PersistingUser"
    /\ SaveMessage(t, "USER", req[t].message,
                   /\ pc' = [pc EXCEPT ![t] = "LoadingHistory"]
                   /\ UNCHANGED result)
    /\ UNCHANGED <<configured, replica, now, getVars, req, nQuery, stale,
                   history, first, nModel, wxCalls, toolResult, secondInput,
                   response_text>>

\* Line 84: get_recent_history(userId) with the default limit.  The Query
\* does not ask for a consistent read.
LoadHistory(t) ==
    /\ pc[t] = "LoadingHistory"
    /\ \E queryOk \in BOOLEAN, view \in {store, replica} :
          LET exc == store_call_raises(configured, queryOk)
          IN  /\ nQuery' = [nQuery EXCEPT ![t] = @ + (IF configured THEN 1 ELSE 0)]
              /\ IF exc = "none"
                 THEN /\ history' = [history EXCEPT ![t] =
                            get_recent_history(view, req[t].userId, ContextLimit)]
                      /\ stale' = [stale EXCEPT ![t] = (view # store)]
                      /\ pc' = [pc EXCEPT ![t] = "AwaitingModel"]
                      /\ UNCHANGED result
                 ELSE /\ Raise(t, exc)
                      /\ UNCHANGED <<history, stale>>
    /\ UNCHANGED <<storeVars, getVars, req, puts, first, nModel, wxCalls,
                   toolResult, secondInput, response_text>>

\* The responses the model service can give to a call.
ModelResponses ==
    {[kind |-> "text", location |-> "", unit |-> ""],
     [kind |-> "empty", location |-> "", unit |-> ""]}
    \cup {[kind |-> "tool", location |-> l, unit |-> u]
            : l \in Locations, u \in Units}

\* response.text of the n-th call: the text, or NoText when the accessor
\* raises (no candidate, or a part that is not text).
ResponseTexts(r, n) ==
    IF r.kind = "text" THEN {IF n = 1 THEN "a1" ELSE "a2"}
    ELSE IF r.kind = "tool" THEN {NoText, IF n = 1 THEN "a1" ELSE "a2"}
    ELSE {NoText}

\* Lines 100 / 102 / 98: response_text = <response>.text, then on to line 104.
UseText(t, txt) ==
    IF txt = NoText
    THEN /\ Raise(t, "ValueError")
         /\ UNCHANGED response_text
    ELSE /\ response_text' = [response_text EXCEPT ![t] = txt]
         /\ pc' = [pc EXCEPT ![t] = "PersistingBot"]
         /\ UNCHANGED result

\* Lines 86-93, 99-102: the first completion call, which takes time, and the
\* look at its first part.
CallModel(t) ==
    /\ pc[t] = "AwaitingModel"
    /\ now < MaxTime
    /\ now' = now + 1
    /\ nModel' = [nModel EXCEPT ![t] = @ + 1]
    /\ \/ /\ Raise(t, "ModelError")
          /\ UNCHANGED <<first, response_text>>
       \/ \E r \in ModelResponses :
             /\ first' = [first EXCEPT ![t] = r]
             /\ IF r.kind = "tool"
                THEN /\ pc' = [pc EXCEPT ![t] = "InvokingTool"]
                     /\ UNCHANGED <<result, response_text>>
                ELSE \E txt \in ResponseTexts(r, 1) : UseText(t, txt)
    /\ UNCHANGED <<configured, store, replica, getVars, req, puts, nQuery,
                   stale, history, wxCalls, toolResult, secondInput>>

\* Line 94 and the handlers of lines 101-102.
InvokeTool(t) ==
    /\ pc[t] = "InvokingTool"
    /\ \E outcome \in ProviderOutcomes, jsonErrIsRequestException \in BOOLEAN :
          LET unit == ToolCallUnit(first[t])
              got  == get_weather(first[t].location, unit, outcome,
                                  jsonErrIsRequestException)
          IN  /\ wxCalls' = [wxCalls EXCEPT ![t] =
                    Append(@, [q |-> first[t].location, units |-> UnitsParam(unit)])]
              /\ CASE got.exc = "none" ->
                        /\ toolResult' = [toolResult EXCEPT ![t] = got.payload]
                        /\ pc' = [pc EXCEPT ![t] = "AwaitingModelFinal"]
                        /\ UNCHANGED <<result, response_text>>
                   [] got.exc = "IndexError" ->
                        /\ UNCHANGED toolResult
                        /\ \E txt \in ResponseTexts(first[t], 1) : UseText(t, txt)
                   [] OTHER ->
                        /\ Raise(t, got.exc)
                        /\ UNCHANGED <<toolResult, response_text>>
    /\ UNCHANGED <<storeVars, getVars, req, puts, nQuery, stale, history,
                   first, nModel, secondInput>>

\* Lines 95-98: the second completion call, carrying the tool result.
CallModelFinal(t) ==
    /\ pc[t] = "AwaitingModelFinal"
    /\ nModel' = [nModel EXCEPT ![t] = @ + 1]
    /\ secondInput' = [secondInput EXCEPT ![t] = toolResult[t]]
    /\ \/ /\ Raise(t, "ModelError")
          /\ UNCHANGED response_text
       \/ \E r \in ModelResponses : \E txt \in ResponseTexts(r, 2) : UseText(t, txt)
    /\ UNCHANGED <<storeVars, getVars, req, puts, nQuery, stale, history,
                   first, wxCalls, toolResult>>

\* Lines 104-105.
PersistBot(t) ==
    /\ pc[t] = "PersistingBot"
    /\ SaveMessage(t, "BOT", response_text[t],
                   /\ pc' = [pc EXCEPT ![t] = "Responding"]
                   /\ result' = [result EXCEPT ![t] =
                        [status |-> 200, at |-> "", exc |-> "",
                         response |-> response_text[t]]])
    /\ UNCHANGED <<configured, replica, now, getVars, req, nQuery, stale,
                   history, first, nModel, wxCalls, toolResult, secondInput,
                   response_text>>

\* Lines 107-109: GET /history/{user_id}.
GetFullHistory ==
    /\ nReq < MaxRequests
    /\ nReq' = nReq + 1
    /\ \E u \in Users, queryOk \in BOOLEAN, view \in {store, replica} :
          LET exc == store_call_raises(configured, queryOk)
          IN  getResp' =
                IF exc = "none"
                THEN [status |-> 200, user |-> u,
                      history |-> get_recent_history(view, u, FullHistoryLimit)]
                ELSE [status |-> 500, user |-> u, history |-> <<>>]
    /\ UNCHANGED <<storeVars, pc, req, puts, nQuery, stale, history, first,
                   nModel, wxCalls, toolResult, secondInput, response_text,
                   result>>

\* Time passes.
Tick ==
    /\ now < MaxTime
    /\ now' = now + 1
    /\ UNCHANGED <<configured, store, replica, getVars, pc, req, puts, nQuery,
                   stale, history, first, nModel, wxCalls, toolResult,
                   secondInput, response_text, result>>

\* The store's copies converge.
Replicate ==
    /\ replica # store
    /\ replica' = store
    /\ UNCHANGED <<configured, store, now, getVars, pc, req, puts, nQuery,
                   stale, history, first, nModel, wxCalls, toolResult,
                   secondInput, response_text, result>>

Next ==
    \/ \E t \in Turns : ReceiveChat(t)
    \/ \E t \in Turns : PersistUser(t)
    \/ \E t \in Turns : LoadHistory(t)
    \/ \E t \in Turns : CallModel(t)
    \/ \E t \in Turns : InvokeTool(t)
    \/ \E t \in Turns : CallModelFinal(t)
    \/ \E t \in Turns : PersistBot(t)
    \/ GetFullHistory
    \/ Tick
    \/ Replicate

Spec == Init /\ [][Next]_vars


\* ------------------------------------------------------------ properties

Range(seq) == {seq[i] : i \in 1..Len(seq)}

\* The request has an empty userId or message.
EmptyField(r) == r.userId = "" \/ r.message = ""

\* C1: with the store unconfigured no POST /chat ends in an error raised by a
\* store step (saving or loading history is a no-op), and GET /history
\* answers 200 with an empty history.
C1_DegradedMode ==
    ~configured =>
        /\ \A t \in Turns :
              pc[t] = "Error" =>
                 result[t].at \notin {"PersistingUser", "LoadingHistory", "PersistingBot"}
        /\ getResp.status # 0 => (getResp.status = 200 /\ getResp.history = <<>>)

C3_WeatherSoftFail ==
    \A t \in Turns :
        (wxCalls[t] # <<>> /\ pc[t] # "InvokingTool") =>
            /\ ~(pc[t] = "Error" /\ result[t].at = "InvokingTool")
            /\ toolResult[t].kind \in {"weather", "error"}

\* C4: a POST /chat with an empty userId or message is rejected with 400 and
\* has issued no store write, no history read, no model call and no weather
\* call; the store holds no item written for such a request.
C4_RejectNoSideEffects ==
    /\ \A t \in Turns :
          (pc[t] # "Idle" /\ EmptyField(req[t])) =>
              /\ pc[t] = "Rejected"
              /\ result[t].status = 400
              /\ puts[t] = <<>>
              /\ nQuery[t] = 0
              /\ nModel[t] = 0
              /\ wxCalls[t] = <<>>
    /\ \A x \in store : x.UserID # "" /\ x.Message # ""

C4_Witness ==
    \E t \in Turns :
        /\ pc[t] = "Rejected"
        /\ req[t].userId = ""
        /\ req[t].message # ""
        /\ \E o \in Turns : pc[o] = "Responding"

C6_SingleToolRoundTrip ==
    \A t \in Turns :
        (pc[t] \in {"PersistingBot", "Responding", "Error"} /\ first[t].kind # "none") =>
            IF first[t].kind = "tool"
            THEN /\ Len(wxCalls[t]) = 1
                 /\ nModel[t] = 2
                 /\ secondInput[t] = toolResult[t]
                 /\ secondInput[t].kind \in {"weather", "error"}
                 /\ pc[t] # "Error" => response_text[t] = "a2"
            ELSE /\ wxCalls[t] = <<>>
                 /\ nModel[t] = 1

\* What get_recent_history is to return from table: the limit newest items
\* of user_id, oldest first.
IsRecent(h, table, user_id, limit) ==
    LET mine == {x \in table : x.UserID = user_id}
    IN  /\ \A i \in 1..Len(h) : h[i] \in mine
        /\ Len(h) = (IF limit < Cardinality(mine) THEN limit ELSE Cardinality(mine))
        /\ \A i, j \in 1..Len(h) :
              i < j => StrLess(h[i].Timestamp, h[j].Timestamp)
        /\ \A x \in mine \ Range(h) :
              \A i \in 1..Len(h) : StrLess(x.Timestamp, h[i].Timestamp)

\* C7: every history read, for the model context (limit 5) and for
\* GET /history (limit 100), returns only the user's items, the limit newest
\* of the copy it read, in ascending timestamp order; and as the clock
\* advances the timestamp strings ascend with it.
C7_RecentHistory ==
    [][/\ now' # now => StrLess(IsoFormat(now), IsoFormat(now'))
       /\ \A t \in Turns :
             (pc[t] = "LoadingHistory" /\ pc'[t] = "AwaitingModel") =>
                \E view \in {store, replica} :
                    IsRecent(history'[t], view, req[t].userId, ContextLimit)
       /\ (getResp' # getResp /\ getResp'.status = 200) =>
             \E view \in {store, replica} :
                 IsRecent(getResp'.history, view, getResp'.user, FullHistoryLimit)]_vars

C7_Witness ==
    \E t \in Turns :
        /\ pc[t] = "AwaitingModel"
        /\ Len(history[t]) = ContextLimit
        /\ Cardinality({x \in store : x.UserID = req[t].userId}) > ContextLimit
        /\ getResp.status = 200
        /\ Len(getResp.history) > 1

\* C8: the history handed to the model does not hold the turn's own USER
\* message, which reaches the model only as the new message of the call.
C8_ContextPriorOnly ==
    \A t \in Turns :
        (nModel[t] >= 1 /\ puts[t] # <<>>) => puts[t][1] \notin Range(history[t])

\* C9: the weather adapter is invoked with the arguments the model asked
\* for: the location, and the measurement system of the requested unit,
\* which is also the unit of the payload fed to the second call.
C9_ToolArgsPassed ==
    \A t \in Turns :
        wxCalls[t] # <<>> =>
            /\ wxCalls[t][1].q = first[t].location
            /\ wxCalls[t][1].units = UnitsParam(first[t].unit)
            /\ toolResult[t].kind = "weather" => toolResult[t].unit = first[t].unit

\* The turn has read its history.
ReadDone(t) ==
    \/ pc[t] \in {"AwaitingModel", "InvokingTool", "AwaitingModelFinal",
                  "PersistingBot", "Responding"}
    \/ pc[t] = "Error" /\ result[t].at \notin {"PersistingUser", "LoadingHistory"}

\* Turn t's history lacks the USER message turn o has written.
Missing(t, o) == puts[o] # <<>> /\ puts[o][1] \notin Range(history[t])

\* Two turns of one user have each read a history without the other's
\* USER message.
BothMissing ==
    /\ ReadDone("A") /\ ReadDone("B")
    /\ req["A"].userId = req["B"].userId
    /\ Missing("A", "B") /\ Missing("B", "A")

\* C10: the race is reachable (C10_Witness), and it takes an uncoordinated
\* store to produce it: whenever both turns miss each other's USER message,
\* one of the reads was served from a lagging copy or the two USER items
\* were stamped alike and share a key.
C10_RaceIsUncoordinatedStore ==
    BothMissing =>
        \/ stale["A"] \/ stale["B"]
        \/ puts["A"][1].Timestamp = puts["B"][1].Timestamp

C10_Witness == BothMissing /\ pc["A"] = "Responding" /\ pc["B"] = "Responding"

====
